---- MODULE Spec2Model ----
(***************************************************************************)
(* A model of the `commit` command of git_autocommit/cli.py: the staging   *)
(* decisions taken from the four git status queries, the generation of the *)
(* commit message by the chat backend, the final confirmation and the      *)
(* commit.  The git working tree, the operator and the backend are the     *)
(* environment: each of their answers is a nondeterministic choice.        *)
(***************************************************************************)
EXTENDS Integers, Sequences, FiniteSets, TLC

(* ------------------------------ bounds --------------------------------- *)

\* Number of paths of the working tree (besides one submodule).
NumFiles == 1

\* Content versions of a path: 0 is "absent", 1..MaxVersion are contents.
MaxVersion == 2

\* Longest reply of the backend, in tokens.
MaxMsgLen == 1

Files == 1..NumFiles
Versions == 0..MaxVersion

PathNames == <<"a.txt", "b.txt", "c.txt", "d.txt">>
VersionNames == <<"v0", "v1", "v2", "v3", "v4">>

PathName(f) == PathNames[f]
VersionName(v) == VersionNames[v + 1]

\* The characters Python's str.strip() removes.
Whitespace == {" ", "\n"}

\* The tokens a reply of the backend is made of.
MsgTokens == {" ", "fix: a"}

(* ------------------------- text (token lists) -------------------------- *)

RECURSIVE LStrip(_)
LStrip(s) ==
    IF s = <<>> THEN <<>>
    ELSE IF Head(s) \in Whitespace THEN LStrip(Tail(s)) ELSE s

RECURSIVE RStrip(_)
RStrip(s) ==
    IF s = <<>> THEN <<>>
    ELSE IF s[Len(s)] \in Whitespace THEN RStrip(SubSeq(s, 1, Len(s) - 1)) ELSE s

\* str.strip()
Strip(s) == RStrip(LStrip(s))

\* The concatenation of the texts of a list.
RECURSIVE Concat(_)
Concat(texts) ==
    IF texts = <<>> THEN <<>> ELSE Head(texts) \o Concat(Tail(texts))

(* --------------------------- the git repository ------------------------ *)

\* A repository: the content of each path in HEAD, in the index and in the
\* working tree, and whether the submodule has modified content (which
\* `git status` and `git diff` report and no `git add` can stage).
Repos ==
    [head : [Files -> Versions], index : [Files -> Versions],
     work : [Files -> Versions], subDirty : BOOLEAN]

\* Column X of `git status --porcelain`: index against HEAD.
StatusX(r, f) ==
    IF r.index[f] = r.head[f] THEN " "
    ELSE IF r.head[f] = 0 THEN "A"
    ELSE IF r.index[f] = 0 THEN "D"
    ELSE "M"

\* Column Y of `git status --porcelain`: working tree against index.
StatusY(r, f) ==
    IF r.index[f] = 0 \/ r.work[f] = r.index[f] THEN " "
    ELSE IF r.work[f] = 0 THEN "D"
    ELSE "M"

IsUntracked(r, f) == r.index[f] = 0 /\ r.work[f] # 0

\* stdout of `git status --porcelain`
StatusStdout(r) ==
    LET Tracked(f) ==
            IF StatusX(r, f) = " " /\ StatusY(r, f) = " " THEN <<>>
            ELSE <<StatusX(r, f), StatusY(r, f), " ", PathName(f), "\n">>
        Untracked(f) ==
            IF IsUntracked(r, f) THEN <<"?", "?", " ", PathName(f), "\n">>
            ELSE <<>>
    IN  Concat([f \in Files |-> Tracked(f)])
        \o (IF r.subDirty THEN <<" ", "M", " ", "sub", "\n">> ELSE <<>>)
        \o Concat([f \in Files |-> Untracked(f)])

\* stdout of `git diff --staged`
StagedDiffStdout(r) ==
    LET Hunk(f) ==
            IF r.index[f] = r.head[f] THEN <<>>
            ELSE <<"diff --git ", PathName(f), "\n",
                   "-", VersionName(r.head[f]), "\n",
                   "+", VersionName(r.index[f]), "\n">>
    IN  Concat([f \in Files |-> Hunk(f)])

\* stdout of `git diff`
UnstagedDiffStdout(r) ==
    LET Hunk(f) ==
            IF r.index[f] = 0 \/ r.work[f] = r.index[f] THEN <<>>
            ELSE <<"diff --git ", PathName(f), "\n",
                   "-", VersionName(r.index[f]), "\n",
                   "+", VersionName(r.work[f]), "\n">>
    IN  Concat([f \in Files |-> Hunk(f)])
        \o (IF r.subDirty THEN <<"diff --git ", "sub", "\n", "+", "dirty", "\n">>
            ELSE <<>>)

\* stdout of `git ls-files --others --exclude-standard`
UntrackedStdout(r) ==
    LET Entry(f) == IF IsUntracked(r, f) THEN <<PathName(f), "\n">> ELSE <<>>
    IN  Concat([f \in Files |-> Entry(f)])

\* `git add .` restricted to the paths of S: index := working tree.
AddPaths(r, S) ==
    [r EXCEPT !.index = [f \in Files |-> IF f \in S THEN r.work[f] ELSE r.index[f]]]

\* `git add .`: every path, untracked ones and deletions included.
GitAddAll(r) == AddPaths(r, Files)

\* `git add -u`: the paths the index already has.
TrackedPaths(r) == {f \in Files : r.index[f] # 0}
GitAddUpdate(r) == AddPaths(r, TrackedPaths(r))

\* `git commit` refuses an index equal to HEAD ("nothing to commit") and a
\* message that is empty once cleaned up; otherwise a hook may still fail it.
CommitCanSucceed(r, msg) ==
    /\ \E f \in Files : r.index[f] # r.head[f]
    /\ Strip(msg) # <<>>

GitCommit(r) == [r EXCEPT !.head = r.index]

(* ------------------------------ the program ---------------------------- *)

VARIABLES
    repo,              \* the git repository the command runs in
    pc,                \* the external call `commit` makes next; "done" once it ended
    status_output,     \* locals of commit(): the current snapshot
    diff_output,
    unstaged_output,
    untracked_output,
    has_untracked,     \* locals of commit(), set once at lines 180-181
    has_unstaged,
    commit_message,    \* local of commit(), set at line 255
    exit_code,         \* the process's exit status, once pc = "done"
    events             \* the external calls made so far, in order, with their results

vars ==
    <<repo, pc, status_output, diff_output, unstaged_output, untracked_output,
      has_untracked, has_unstaged, commit_message, exit_code, events>>

snapshot == <<status_output, diff_output, unstaged_output, untracked_output>>
classification == <<has_untracked, has_unstaged>>

\* The value of a local that is not bound yet.
Unbound == <<"<unbound>">>

\* The exit status of a process that has not exited.
NotExited == 0 - 1

\* The replies the backend can give: any text of at most MaxMsgLen tokens.
Messages == UNION {[1..n -> MsgTokens] : n \in 0..MaxMsgLen}

\* get_git_status() when the four queries succeed: the stripped stdout of each.
GetGitStatus(r) ==
    <<Strip(StatusStdout(r)), Strip(StagedDiffStdout(r)),
      Strip(UnstagedDiffStdout(r)), Strip(UntrackedStdout(r))>>

\* The queries of one get_git_status() are numbered 1..4; 0 is "none fails".
QueryFailures == 0..4

\* bool(text.strip())
Truthy(text) == Strip(text) # <<>>

Printed(line) == [op |-> "print", line |-> line]
Asked(line, answer) == [op |-> "Confirm.ask", line |-> line, answer |-> answer]
Added(line, arg, ok) == [op |-> "git add", line |-> line, arg |-> arg, ok |-> ok]
Captured(line, failed, out) ==
    [op |-> "get_git_status", line |-> line, failed |-> failed, out |-> out]
BackendAsked(status, diff, ok, content) ==
    [op |-> "client.ask", status |-> status, diff |-> diff, ok |-> ok,
     content |-> content]
Panel(text) == [op |-> "Panel", text |-> text]
Committed(msg, ok) == [op |-> "git commit", msg |-> msg, ok |-> ok]

\* Exit that forgets the status: raise typer.Exit() everywhere.
Exit_Neutral(code) == pc' = "done" /\ exit_code' = 0

\* raise typer.Exit(code), an uncaught exception (code 1), or the return of
\* commit() (code 0).
Exit(code) == pc' = "done" /\ exit_code' = code

Goto(label) == pc' = label /\ exit_code' = exit_code

Log(es) == events' = events \o es

Assign(snap) ==
    /\ status_output' = snap[1]
    /\ diff_output' = snap[2]
    /\ unstaged_output' = snap[3]
    /\ untracked_output' = snap[4]

\* What a failing `git add` leaves behind: it may have staged some of the
\* paths it was asked to stage, but not all of them.
PartialAdds(r, S) == {AddPaths(r, T) : T \in (SUBSET S) \ {S}} \cup {r}

\* The repositories a run can start in.  Versions are only ever compared, so
\* the content HEAD has of a path, when it has one, is called version 1.
InitialRepos == {r \in Repos : \A f \in Files : r.head[f] \in {0, 1}}

Init ==
    /\ repo \in InitialRepos
    /\ pc = "get_git_status_173"
    /\ status_output = Unbound
    /\ diff_output = Unbound
    /\ unstaged_output = Unbound
    /\ untracked_output = Unbound
    /\ has_untracked = FALSE
    /\ has_unstaged = FALSE
    /\ commit_message = Unbound
    /\ exit_code = NotExited
    /\ events = <<>>

\* Lines 236-237: the step after the untracked handling.
UnstagedStep(unstaged) == IF unstaged THEN "ask_238" ELSE "generate_255"

\* FirstStep without the test of line 175.
FirstStep_NoCleanCheck(snap) ==
    IF snap[2] = <<>>
    THEN (IF Truthy(snap[4]) THEN "ask_189" ELSE "ask_203")
    ELSE IF Truthy(snap[4]) THEN "ask_222" ELSE UnstagedStep(Truthy(snap[3]))

\* FirstStep with the branches of line 188 exchanged.
FirstStep_TrackedFirst(snap) ==
    IF snap[1] = <<>> THEN "exit_177"
    ELSE IF snap[2] = <<>>
         THEN (IF Truthy(snap[4]) THEN "ask_203" ELSE "ask_189")
         ELSE IF Truthy(snap[4]) THEN "ask_222" ELSE UnstagedStep(Truthy(snap[3]))

\* Lines 175-188, 220, 237: where the first snapshot sends the run.
FirstStep(snap) ==
    IF snap[1] = <<>> THEN "exit_177"
    ELSE IF snap[2] = <<>>
         THEN (IF Truthy(snap[4]) THEN "ask_189" ELSE "ask_203")
         ELSE IF Truthy(snap[4]) THEN "ask_222" ELSE UnstagedStep(Truthy(snap[3]))

\* Line 173 to the first question: the first capture and the classification.
FirstCapture ==
    /\ pc = "get_git_status_173"
    /\ \E failed \in QueryFailures :
         IF failed # 0
         THEN /\ Log(<<Captured(173, failed, <<>>), Printed(61)>>)
              /\ Exit(1)
              /\ UNCHANGED <<snapshot, classification>>
         ELSE LET snap == GetGitStatus(repo) IN
              /\ Assign(snap)
              /\ IF FirstStep(snap) = "exit_177"
                 THEN /\ Log(<<Captured(173, 0, snap), Printed(176)>>)
                      /\ Exit(0)
                      /\ UNCHANGED classification
                 ELSE /\ has_untracked' = Truthy(snap[4])
                      /\ has_unstaged' = Truthy(snap[3])
                      /\ Log(<<Captured(173, 0, snap)>>
                             \o (IF snap[2] = <<>> THEN <<Printed(185)>> ELSE <<>>))
                      /\ Goto(FirstStep(snap))
    /\ UNCHANGED <<repo, commit_message>>

\* AskRequired where a "no" goes on to the generation, as for an optional proposal.
AskRequired_DeclineContinues(at, line, addAt, declined) ==
    /\ pc = at
    /\ \E answer \in BOOLEAN :
         IF answer
         THEN Log(<<Asked(line, TRUE)>>) /\ Goto(addAt)
         ELSE Log(<<Asked(line, FALSE), Printed(declined)>>) /\ Goto("generate_255")
    /\ UNCHANGED <<repo, snapshot, classification, commit_message>>

\* Lines 189-200 and 203-212: a required proposal; `line` is the line of the
\* question, `addAt` the position of the staging call.
AskRequired(at, line, addAt, declined) ==
    /\ pc = at
    /\ \E answer \in BOOLEAN :
         IF answer
         THEN Log(<<Asked(line, TRUE)>>) /\ Goto(addAt)
         ELSE Log(<<Asked(line, FALSE), Printed(declined)>>) /\ Exit(0)
    /\ UNCHANGED <<repo, snapshot, classification, commit_message>>

AskRequiredAll == AskRequired("ask_189", 189, "add_193", 199)

AskRequiredUpdate == AskRequired("ask_203", 203, "add_205", 211)

\* AddRequired where the failure is reported and the run goes on.
AddRequired_FailureContinues(at, line, arg, staged, paths, okLine, failLine) ==
    /\ pc = at
    /\ \/ /\ repo' = staged
          /\ Log(<<Added(line, arg, TRUE), Printed(okLine)>>)
          /\ Goto("get_git_status_215")
       \/ /\ repo' \in PartialAdds(repo, paths)
          /\ Log(<<Added(line, arg, FALSE), Printed(failLine)>>)
          /\ Goto("get_git_status_215")
    /\ UNCHANGED <<snapshot, classification, commit_message>>

\* Lines 192-197 and 204-209: a required staging action.
AddRequired(at, line, arg, staged, paths, okLine, failLine) ==
    /\ pc = at
    /\ \/ /\ repo' = staged
          /\ Log(<<Added(line, arg, TRUE), Printed(okLine)>>)
          /\ Goto("get_git_status_215")
       \/ /\ repo' \in PartialAdds(repo, paths)
          /\ Log(<<Added(line, arg, FALSE), Printed(failLine)>>)
          /\ Exit(1)
    /\ UNCHANGED <<snapshot, classification, commit_message>>

AddRequiredAll ==
    AddRequired("add_193", 193, ".", GitAddAll(repo), Files, 194, 196)

AddRequiredUpdate ==
    AddRequired("add_205", 205, "-u", GitAddUpdate(repo), TrackedPaths(repo), 206, 208)

\* RecaptureRequired without the test of line 217.
RecaptureRequired_NoEmptyCheck ==
    /\ pc = "get_git_status_215"
    /\ \E failed \in QueryFailures :
         IF failed # 0
         THEN /\ Log(<<Captured(215, failed, <<>>), Printed(61)>>)
              /\ Exit(1)
              /\ UNCHANGED snapshot
         ELSE LET snap == GetGitStatus(repo) IN
              /\ Assign(snap)
              /\ Log(<<Captured(215, 0, snap)>>)
              /\ Goto(UnstagedStep(has_unstaged))
    /\ UNCHANGED <<repo, classification, commit_message>>

\* Lines 214-219: the recapture after a required staging action.
RecaptureRequired ==
    /\ pc = "get_git_status_215"
    /\ \E failed \in QueryFailures :
         IF failed # 0
         THEN /\ Log(<<Captured(215, failed, <<>>), Printed(61)>>)
              /\ Exit(1)
              /\ UNCHANGED snapshot
         ELSE LET snap == GetGitStatus(repo) IN
              /\ Assign(snap)
              /\ IF snap[2] = <<>>
                 THEN Log(<<Captured(215, 0, snap), Printed(218)>>) /\ Exit(0)
                 ELSE Log(<<Captured(215, 0, snap)>>) /\ Goto(UnstagedStep(has_unstaged))
    /\ UNCHANGED <<repo, classification, commit_message>>

\* AskOptional where a "no" ends the run, as for a required proposal.
AskOptional_DeclineCancels(at, line, addAt, next) ==
    /\ pc = at
    /\ \E answer \in BOOLEAN :
         IF answer
         THEN Log(<<Asked(line, TRUE)>>) /\ Goto(addAt)
         ELSE Log(<<Asked(line, FALSE)>>) /\ Exit(0)
    /\ UNCHANGED <<repo, snapshot, classification, commit_message>>

\* Lines 222-224 and 238-240: an optional proposal; a "no" goes on to `next`.
AskOptional(at, line, addAt, next) ==
    /\ pc = at
    /\ \E answer \in BOOLEAN :
         /\ Log(<<Asked(line, answer)>>)
         /\ Goto(IF answer THEN addAt ELSE next)
    /\ UNCHANGED <<repo, snapshot, classification, commit_message>>

AskOptionalAll ==
    AskOptional("ask_222", 222, "add_226", UnstagedStep(has_unstaged))

AskOptionalUpdate == AskOptional("ask_238", 238, "add_242", "generate_255")

\* AddOptional where the failure ends the run, as for a required action.
AddOptional_FailureAborts(at, line, arg, staged, paths, okLine, failLine, captureAt, next) ==
    /\ pc = at
    /\ \/ /\ repo' = staged
          /\ Log(<<Added(line, arg, TRUE), Printed(okLine)>>)
          /\ Goto(captureAt)
       \/ /\ repo' \in PartialAdds(repo, paths)
          /\ Log(<<Added(line, arg, FALSE), Printed(failLine)>>)
          /\ Exit(1)
    /\ UNCHANGED <<snapshot, classification, commit_message>>

\* AddOptional without the recapture of lines 229-231 (245-247).
AddOptional_NoRecapture(at, line, arg, staged, paths, okLine, failLine, captureAt, next) ==
    /\ pc = at
    /\ \/ /\ repo' = staged
          /\ Log(<<Added(line, arg, TRUE), Printed(okLine)>>)
          /\ Goto(next)
       \/ /\ repo' \in PartialAdds(repo, paths)
          /\ Log(<<Added(line, arg, FALSE), Printed(failLine)>>)
          /\ Goto(next)
    /\ UNCHANGED <<snapshot, classification, commit_message>>

\* AddOptional where a failure puts the question again.
AddOptional_FailureAsksAgain(at, line, arg, staged, paths, okLine, failLine, captureAt, next) ==
    /\ pc = at
    /\ \/ /\ repo' = staged
          /\ Log(<<Added(line, arg, TRUE), Printed(okLine)>>)
          /\ Goto(captureAt)
       \/ /\ repo' \in PartialAdds(repo, paths)
          /\ Log(<<Added(line, arg, FALSE), Printed(failLine)>>)
          /\ Goto(IF at = "add_226" THEN "ask_222" ELSE "ask_238")
    /\ UNCHANGED <<snapshot, classification, commit_message>>

\* Lines 225-227, 232-234 and 241-243, 248-250: an optional staging action;
\* its failure is caught and the run goes on to `next`.
AddOptional(at, line, arg, staged, paths, okLine, failLine, captureAt, next) ==
    /\ pc = at
    /\ \/ /\ repo' = staged
          /\ Log(<<Added(line, arg, TRUE), Printed(okLine)>>)
          /\ Goto(captureAt)
       \/ /\ repo' \in PartialAdds(repo, paths)
          /\ Log(<<Added(line, arg, FALSE), Printed(failLine)>>)
          /\ Goto(next)
    /\ UNCHANGED <<snapshot, classification, commit_message>>

AddOptionalAll ==
    AddOptional("add_226", 226, ".", GitAddAll(repo), Files, 227, 233,
                "get_git_status_229", UnstagedStep(has_unstaged))

AddOptionalUpdate ==
    AddOptional("add_242", 242, "-u", GitAddUpdate(repo), TrackedPaths(repo), 243, 249,
                "get_git_status_245", "generate_255")

\* RecaptureOptional where a failing query is handled like a failing `git add`.
RecaptureOptional_FailureContinues(at, line, next) ==
    /\ pc = at
    /\ \E failed \in QueryFailures :
         IF failed # 0
         THEN /\ Log(<<Captured(line, failed, <<>>), Printed(61)>>)
              /\ Goto(next)
              /\ UNCHANGED snapshot
         ELSE LET snap == GetGitStatus(repo) IN
              /\ Assign(snap)
              /\ Log(<<Captured(line, 0, snap)>>)
              /\ Goto(next)
    /\ UNCHANGED <<repo, classification, commit_message>>

\* Lines 229-231 and 245-247: the recapture inside an optional step.  The
\* typer.Exit get_git_status raises is no CalledProcessError: the handler of
\* line 232 (248) does not catch it.
RecaptureOptional(at, line, next) ==
    /\ pc = at
    /\ \E failed \in QueryFailures :
         IF failed # 0
         THEN /\ Log(<<Captured(line, failed, <<>>), Printed(61)>>)
              /\ Exit(1)
              /\ UNCHANGED snapshot
         ELSE LET snap == GetGitStatus(repo) IN
              /\ Assign(snap)
              /\ Log(<<Captured(line, 0, snap)>>)
              /\ Goto(next)
    /\ UNCHANGED <<repo, classification, commit_message>>

RecaptureOptionalAll ==
    RecaptureOptional("get_git_status_229", 229, UnstagedStep(has_unstaged))

RecaptureOptionalUpdate ==
    RecaptureOptional("get_git_status_245", 245, "generate_255")

\* generate_commit_message, line 159: the reply's content, as it is.
ResponseContent(content) == content

\* Generate with a message made up locally when the backend fails.
Generate_FallbackMessage ==
    /\ pc = "generate_255"
    /\ \/ \E content \in Messages :
            /\ commit_message' = ResponseContent(content)
            /\ Log(<<Printed(252),
                     BackendAsked(status_output, diff_output, TRUE, content),
                     Panel(commit_message')>>)
            /\ Goto("ask_261")
       \/ /\ commit_message' = <<"fix: a">>
          /\ Log(<<Printed(252),
                   BackendAsked(status_output, diff_output, FALSE, <<>>),
                   Panel(commit_message')>>)
          /\ Goto("ask_261")
    /\ UNCHANGED <<repo, snapshot, classification>>

\* Lines 252-259: the call of the backend and the panel.  An exception of
\* client.ask is caught nowhere and ends the process with status 1.
Generate ==
    /\ pc = "generate_255"
    /\ \/ \E content \in Messages :
            /\ commit_message' = ResponseContent(content)
            /\ Log(<<Printed(252),
                     BackendAsked(status_output, diff_output, TRUE, content),
                     Panel(commit_message')>>)
            /\ Goto("ask_261")
       \/ /\ Log(<<Printed(252),
                   BackendAsked(status_output, diff_output, FALSE, <<>>)>>)
          /\ Exit(1)
          /\ UNCHANGED commit_message
    /\ UNCHANGED <<repo, snapshot, classification>>

\* ConfirmCommit that commits whatever the answer is.
ConfirmCommit_IgnoresAnswer ==
    /\ pc = "ask_261"
    /\ \E answer \in BOOLEAN :
         Log(<<Asked(261, answer)>>) /\ Goto("commit_266")
    /\ UNCHANGED <<repo, snapshot, classification, commit_message>>

\* Lines 261-263: the final confirmation.
ConfirmCommit ==
    /\ pc = "ask_261"
    /\ \E answer \in BOOLEAN :
         IF answer
         THEN Log(<<Asked(261, TRUE)>>) /\ Goto("commit_266")
         ELSE Log(<<Asked(261, FALSE), Printed(262)>>) /\ Exit(0)
    /\ UNCHANGED <<repo, snapshot, classification, commit_message>>

\* CommitArgument that tidies the message up.
CommitArgument_Stripped(message) == Strip(message)

\* Line 266: the message handed to `git commit -m`.
CommitArgument(message) == message

\* Commit that tries again when `git commit` fails.
Commit_RetriesOnFailure ==
    /\ pc = "commit_266"
    /\ LET msg == CommitArgument(commit_message) IN
       \/ /\ CommitCanSucceed(repo, msg)
          /\ repo' = GitCommit(repo)
          /\ Log(<<Committed(msg, TRUE), Printed(267)>>)
          /\ Exit(0)
       \/ /\ Log(<<Committed(msg, FALSE), Printed(271)>>)
          /\ Goto("commit_266")
          /\ UNCHANGED repo
    /\ UNCHANGED <<snapshot, classification, commit_message>>

\* Lines 265-272: the commit.
Commit ==
    /\ pc = "commit_266"
    /\ LET msg == CommitArgument(commit_message) IN
       \/ /\ CommitCanSucceed(repo, msg)
          /\ repo' = GitCommit(repo)
          /\ Log(<<Committed(msg, TRUE), Printed(267)>>)
          /\ Exit(0)
       \/ /\ Log(<<Committed(msg, FALSE), Printed(271)>>)
          /\ Exit(1)
          /\ UNCHANGED repo
    /\ UNCHANGED <<snapshot, classification, commit_message>>

Next ==
    \/ FirstCapture
    \/ AskRequiredAll
    \/ AskRequiredUpdate
    \/ AddRequiredAll
    \/ AddRequiredUpdate
    \/ RecaptureRequired
    \/ AskOptionalAll
    \/ AddOptionalAll
    \/ RecaptureOptionalAll
    \/ AskOptionalUpdate
    \/ AddOptionalUpdate
    \/ RecaptureOptionalUpdate
    \/ Generate
    \/ ConfirmCommit
    \/ Commit

Spec == Init /\ [][Next]_vars

\* Every external call returns (section 5: each call blocks until it does).
FairSpec == Spec /\ WF_vars(Next)

(* -------------------------- reading the event log ----------------------- *)

Idx == DOMAIN events

IsOp(i, o) == events[i].op = o

IsCapture(i) == IsOp(i, "get_git_status") /\ events[i].failed = 0
IsQueryFailure(i) == IsOp(i, "get_git_status") /\ events[i].failed # 0
IsAsk(i) == IsOp(i, "Confirm.ask")
IsAskAt(i, lines) == IsAsk(i) /\ events[i].line \in lines
IsAdd(i) == IsOp(i, "git add")
IsBackendCall(i) == IsOp(i, "client.ask")
IsCommit(i) == IsOp(i, "git commit")

\* The lines of the questions proposing `git add .` and `git add -u`, of the
\* required proposals, and of the required and optional staging calls.
StageAllQuestions == {189, 222}
StageTrackedQuestions == {203, 238}
RequiredQuestions == {189, 203}
RequiredAdds == {193, 205}
OptionalAdds == {226, 242}

\* The first snapshot was captured, with changes / with nothing staged / with
\* something staged.
FirstCaptured == events # <<>> /\ IsCapture(1)
FirstHasChanges == FirstCaptured /\ events[1].out[1] # <<>>
FirstNothingStaged == FirstHasChanges /\ events[1].out[2] = <<>>
FirstStaged == FirstHasChanges /\ events[1].out[2] # <<>>

(* -------------------------------- claims ------------------------------- *)

\* C1: the commit is invoked only after the backend returned a message, that
\* message was shown in the panel and the operator answered yes to the final
\* confirmation, in this order; after a "no" to the final confirmation no
\* commit is invoked.
C1_CommitOnlyAfterConfirmedMessage ==
    /\ \A i \in Idx :
         IsCommit(i) =>
           \E a \in 1..(i - 1) :
             /\ events[a] = Asked(261, TRUE)
             /\ \E p \in 1..(a - 1) :
                  /\ IsOp(p, "Panel")
                  /\ \E g \in 1..(p - 1) :
                       /\ IsBackendCall(g) /\ events[g].ok
                       /\ events[p].text = events[g].content
    /\ (\E a \in Idx : events[a] = Asked(261, FALSE)) =>
         /\ \A i \in Idx : ~IsCommit(i)
         /\ pc = "done"

C1_Witness ==
    /\ pc = "done"
    /\ \E i \in Idx : IsCommit(i) /\ events[i].ok

\* C2: an empty status text in the first snapshot ends the run at once with
\* the "no changes" outcome: no question, no staging, no backend call, no commit.
C2_CleanTreeEndsRun ==
    (FirstCaptured /\ events[1].out[1] = <<>>) =>
        /\ pc = "done"
        /\ exit_code = 0
        /\ events = <<events[1], Printed(176)>>
        /\ commit_message = Unbound

C2_Witness ==
    /\ FirstCaptured
    /\ events[1].out[1] = <<>>
    /\ pc = "done"

\* C3: a failing backend call aborts the run: the final confirmation is not
\* asked, the commit is not invoked and no message is made up locally.
C3_BackendFailureAborts ==
    \A g \in Idx :
        (IsBackendCall(g) /\ ~events[g].ok) =>
            /\ g = Len(events)
            /\ pc = "done"
            /\ exit_code = 1
            /\ commit_message = Unbound
            /\ \A i \in Idx : ~IsCommit(i) /\ ~IsAskAt(i, {261}) /\ ~IsOp(i, "Panel")

C3_Witness ==
    /\ pc = "done"
    /\ \E g \in Idx : IsBackendCall(g) /\ ~events[g].ok

\* C4: the message handed to the commit is the content the backend returned
\* in this run, unchanged.
C4_MessageUnmodified ==
    \A i \in Idx :
        IsCommit(i) =>
            \E g \in 1..(i - 1) :
                /\ IsBackendCall(g) /\ events[g].ok
                /\ events[i].msg = events[g].content
                /\ \A h \in Idx : IsBackendCall(h) => h = g

\* A commit is invoked with a message that stripping would change.
C4_Witness ==
    \E i \in Idx : IsCommit(i) /\ Strip(events[i].msg) # events[i].msg

\* C5: with changes and nothing staged in the first snapshot the proposal is
\* required: declining it ends the run as cancelled (exit status 0), with no
\* staging action, no recapture, no backend call and no commit.
C5_RequiredDeclineCancels ==
    FirstNothingStaged =>
        /\ events[2] = Printed(185)
        /\ \/ Len(events) = 2 /\ pc \in {"ask_189", "ask_203"}
           \/ Len(events) > 2 /\ IsAskAt(3, RequiredQuestions)
        /\ (Len(events) > 2 /\ ~events[3].answer) =>
              /\ pc = "done"
              /\ exit_code = 0
              /\ Len(events) = 4
              /\ events[4] \in {Printed(199), Printed(211)}
              /\ repo \in Repos /\ GetGitStatus(repo) = events[1].out

C5_Witness ==
    /\ FirstNothingStaged
    /\ \E a \in Idx : IsAskAt(a, RequiredQuestions) /\ ~events[a].answer

\* C6: with something staged in the first snapshot no proposal is required:
\* whatever the operator answers and whether the staging actions succeed or
\* not, the run does not end, and always has a next step, until the backend
\* is called or a status query fails.
C6_StagedReachesBackend ==
    FirstStaged =>
        /\ \A i \in Idx :
             /\ ~IsAskAt(i, RequiredQuestions)
             /\ IsAdd(i) => events[i].line \in OptionalAdds
        /\ \/ \E g \in Idx : IsBackendCall(g)
           \/ \E c \in Idx : IsQueryFailure(c)
           \/ /\ pc \in {"ask_222", "add_226", "get_git_status_229", "ask_238",
                         "add_242", "get_git_status_245", "generate_255"}
              /\ ENABLED Next

\* The backend is called after a declined and after a failed optional proposal.
C6_Witness ==
    /\ FirstStaged
    /\ \E a, b, g \in Idx :
         /\ a < b /\ b < g
         /\ IsAdd(a) /\ ~events[a].ok
         /\ IsAsk(b) /\ ~events[b].answer
         /\ IsBackendCall(g)

\* C7: with nothing staged the required proposal is `git add .` if the
\* snapshot lists untracked files and `git add -u` otherwise; and a
\* `git add .` proposal never comes after a `git add -u` proposal.
C7_ProposalChoiceAndOrder ==
    /\ FirstNothingStaged =>
         LET line == IF events[1].out[4] # <<>> THEN 189 ELSE 203 IN
         \/ Len(events) = 2 /\ pc = (IF line = 189 THEN "ask_189" ELSE "ask_203")
         \/ Len(events) > 2 /\ IsAskAt(3, {line})
    /\ \A i \in Idx : IsAskAt(i, RequiredQuestions) => i = 3 /\ FirstNothingStaged
    /\ \A i \in Idx :
         IsAskAt(i, StageTrackedQuestions) =>
            \A j \in i..Len(events) : ~IsAskAt(j, StageAllQuestions)

\* Both proposals are made in one run, the required one being `git add .`.
C7_Witness ==
    /\ FirstNothingStaged
    /\ \E i, j \in Idx : IsAskAt(i, {189}) /\ IsAskAt(j, StageTrackedQuestions)

\* C8: when the snapshot recaptured after a successful required staging
\* action still has an empty staged diff, the run ends as cancelled (exit
\* status 0): no further proposal, no backend call, no commit.
C8_StillNothingStagedCancels ==
    \A c \in Idx :
        (IsCapture(c) /\ events[c].line = 215 /\ events[c].out[2] = <<>>) =>
            /\ pc = "done"
            /\ exit_code = 0
            /\ Len(events) = c + 1
            /\ events[c + 1] = Printed(218)
            /\ commit_message = Unbound
            /\ \A i \in Idx : IsAsk(i) => i = 3

C8_Witness ==
    \E a, c \in Idx :
        /\ a < c
        /\ IsAdd(a) /\ events[a].ok /\ events[a].line \in RequiredAdds
        /\ IsCapture(c) /\ events[c].line = 215 /\ events[c].out[2] = <<>>

\* C9: every successful staging action is followed by a new capture (all
\* four queries) before anything else, and the status text and staged diff
\* handed to generate_commit_message are those of the latest capture, which
\* is later than every successful staging action of the run.
C9_GenerateUsesLatestSnapshot ==
    /\ \A a \in Idx :
         (IsAdd(a) /\ events[a].ok) =>
            /\ events[a + 1].op = "print"
            /\ \/ /\ Len(events) = a + 1
                  /\ pc \in {"get_git_status_215", "get_git_status_229",
                             "get_git_status_245"}
               \/ Len(events) > a + 1 /\ IsOp(a + 2, "get_git_status")
    /\ \A g \in Idx :
         IsBackendCall(g) =>
            \E c \in 1..(g - 1) :
               /\ IsCapture(c)
               /\ \A k \in (c + 1)..g : ~IsCapture(k)
               /\ events[g].status = events[c].out[1]
               /\ events[g].diff = events[c].out[2]
               /\ \A a \in 1..g : (IsAdd(a) /\ events[a].ok) => a < c

\* The backend is called after a successful staging action whose recapture
\* differs from the first snapshot.
C9_Witness ==
    \E a, g \in Idx :
        /\ a < g
        /\ IsAdd(a) /\ events[a].ok
        /\ IsBackendCall(g)
        /\ events[g].diff # events[1].out[2]

\* The failed staging action at position a of the log ended the run.
AbortedBy(a) ==
    /\ pc = "done"
    /\ exit_code = 1
    /\ Len(events) = a + 1
    /\ commit_message = Unbound

FailedRequiredAdd(a) ==
    IsAdd(a) /\ ~events[a].ok /\ events[a].line \in RequiredAdds

FailedOptionalAdd(a) ==
    IsAdd(a) /\ ~events[a].ok /\ events[a].line \in OptionalAdds

\* C10 as claimed: a failed required staging action aborts the run; after a
\* failed optional one the run goes on to the backend call, with the
\* snapshot captured before the failed action.
C10_AsClaimed ==
    \A a \in Idx :
        /\ FailedRequiredAdd(a) => AbortedBy(a)
        /\ FailedOptionalAdd(a) =>
              /\ pc = "done" => \E g \in Idx : g > a /\ IsBackendCall(g)
              /\ \A g \in Idx :
                   (g > a /\ IsBackendCall(g)) => \A c \in a..g : ~IsCapture(c)

\* C10 (amended): a failed required staging action aborts the run, with no
\* backend call and no commit.  A failed optional one neither ends the run
\* nor changes the snapshot: the run goes on to its next step, which is the
\* proposal of line 238 after a failed `git add .` when the first snapshot
\* had unstaged changes and the backend call otherwise; the backend gets the
\* snapshot captured before the failure unless a later staging action
\* succeeds, and only a failing status query of that later step's recapture
\* can end the run before the backend call.
C10_FailedStaging ==
    \A a \in Idx :
        /\ FailedRequiredAdd(a) => AbortedBy(a)
        /\ FailedOptionalAdd(a) =>
              /\ Len(events) = a + 1 =>
                    /\ pc = (IF events[a].line = 226
                             THEN UnstagedStep(has_unstaged) ELSE "generate_255")
                    /\ \E c \in 1..a :
                          /\ IsCapture(c)
                          /\ \A k \in c..a : IsCapture(k) => k = c
                          /\ snapshot = events[c].out
              /\ Len(events) > a + 1 =>
                    \/ events[a + 2] = Printed(252) /\ IsBackendCall(a + 3)
                    \/ /\ events[a].line = 226 /\ has_unstaged
                       /\ IsAskAt(a + 2, {238})
              /\ \A g \in Idx :
                   (/\ g > a /\ IsBackendCall(g)
                    /\ \A b \in a..g : IsAdd(b) => ~events[b].ok)
                   => \A c \in a..g : ~IsCapture(c)
              /\ (pc = "done" /\ \A g \in Idx : ~IsBackendCall(g)) =>
                    /\ IsQueryFailure(Len(events) - 1)
                    /\ \E b \in Idx : b > a /\ IsAdd(b) /\ events[b].ok

\* A failed optional `git add .` is followed by an accepted, successful
\* `git add -u` and a backend call.
C10_Witness ==
    \E a, b, g \in Idx :
        /\ a < b /\ b < g
        /\ FailedOptionalAdd(a)
        /\ IsAdd(b) /\ events[b].ok
        /\ IsBackendCall(g)


\* The snapshot the locals hold when event i is logged: the result of the
\* last successful capture before i, if any.
SnapshotBefore(i) ==
    LET cs == {c \in 1..(i - 1) : IsCapture(c)} IN
    IF cs = {} THEN <<Unbound, Unbound, Unbound, Unbound>>
    ELSE events[CHOOSE c \in cs : \A d \in cs : d <= c].out

\* C11: a failing status query, in whichever capture of the run, aborts the
\* run at once (exit status 1): nothing is done after it, the failed capture
\* binds no local, and a failure inside an optional step is not treated as
\* "continue with the existing staged changes".
C11_QueryFailureAborts ==
    \A c \in Idx :
        IsQueryFailure(c) =>
            /\ events[c].line \in {173, 215, 229, 245}
            /\ events[c].out = <<>>
            /\ Len(events) = c + 1
            /\ events[c + 1] = Printed(61)
            /\ pc = "done"
            /\ exit_code = 1
            /\ snapshot = SnapshotBefore(c)
            /\ commit_message = Unbound

\* A query fails in the recapture of an optional step.
C11_Witness ==
    \E c \in Idx : IsQueryFailure(c) /\ events[c].line \in {229, 245}


\* Why the run ended, read from the end of the log.
EndedByQueryFailure == Len(events) > 1 /\ IsQueryFailure(Len(events) - 1)
EndedByRequiredStagingFailure == Len(events) > 1 /\ FailedRequiredAdd(Len(events) - 1)
EndedByBackendFailure ==
    events # <<>> /\ IsBackendCall(Len(events)) /\ ~events[Len(events)].ok
EndedByCommitFailure ==
    Len(events) > 1 /\ IsCommit(Len(events) - 1) /\ ~events[Len(events) - 1].ok
EndedByNoChanges == Len(events) = 2 /\ IsCapture(1) /\ events[1].out[1] = <<>>
EndedByRequiredDecline ==
    /\ Len(events) > 1
    /\ IsAskAt(Len(events) - 1, RequiredQuestions)
    /\ ~events[Len(events) - 1].answer
EndedByFinalDecline ==
    /\ Len(events) > 1
    /\ IsAskAt(Len(events) - 1, {261})
    /\ ~events[Len(events) - 1].answer
EndedByStillNothingStaged ==
    /\ Len(events) > 2
    /\ IsCapture(Len(events) - 1)
    /\ events[Len(events) - 1].line = 215
    /\ events[Len(events) - 1].out[2] = <<>>
EndedByCommit ==
    Len(events) > 1 /\ IsCommit(Len(events) - 1) /\ events[Len(events) - 1].ok

\* C12: the exit status is 1 when the run ends on a status query failure, a
\* required staging failure, a backend failure or a commit failure, and 0
\* when it ends on "no changes", on a declined required proposal, on a
\* declined final confirmation, on "still nothing staged" or on the commit;
\* and a run ends in no other way.
C12_ExitStatus ==
    /\ pc # "done" => exit_code = NotExited
    /\ pc = "done" =>
         /\ \/ EndedByQueryFailure \/ EndedByRequiredStagingFailure
            \/ EndedByBackendFailure \/ EndedByCommitFailure
            \/ EndedByNoChanges \/ EndedByRequiredDecline \/ EndedByFinalDecline
            \/ EndedByStillNothingStaged \/ EndedByCommit
         /\ (\/ EndedByQueryFailure \/ EndedByRequiredStagingFailure
             \/ EndedByBackendFailure \/ EndedByCommitFailure) => exit_code = 1
         /\ (\/ EndedByNoChanges \/ EndedByRequiredDecline \/ EndedByFinalDecline
             \/ EndedByStillNothingStaged \/ EndedByCommit) => exit_code = 0

\* A run ends on a failed commit, with status 1.
C12_Witness == pc = "done" /\ EndedByCommitFailure /\ exit_code = 1


\* C13 (as claimed): every staging proposal is decided from the snapshot
\* captured last before it; in particular `git add -u` is proposed at line
\* 238 only if that snapshot has a non-empty unstaged diff.
C13_ProposalsFromLatestSnapshot ==
    \A i \in Idx :
        LET snap == SnapshotBefore(i) IN
        /\ IsAskAt(i, {189}) => snap[2] = <<>> /\ snap[4] # <<>>
        /\ IsAskAt(i, {203}) => snap[2] = <<>> /\ snap[4] = <<>>
        /\ IsAskAt(i, {222}) => snap[2] # <<>> /\ snap[4] # <<>>
        /\ IsAskAt(i, {238}) => snap[3] # <<>>


\* C14 (as claimed): whenever the backend is called, the staged diff handed
\* to it is non-empty.
C14_BackendGetsStagedDiff ==
    \A g \in Idx : IsBackendCall(g) => events[g].diff # <<>>


OptionalQuestions == {222, 238}

DeclinedOptional(i) == IsAskAt(i, OptionalQuestions) /\ ~events[i].answer

\* The backend call logged at positions i + 1 and i + 2, with the snapshot
\* held at position i.
GeneratesNext(i) ==
    /\ events[i + 1] = Printed(252)
    /\ IsBackendCall(i + 2)
    /\ events[i + 2].status = SnapshotBefore(i)[1]
    /\ events[i + 2].diff = SnapshotBefore(i)[2]

\* C15 (as claimed): after a rejected optional proposal no staging action is
\* executed for it, the snapshot is unchanged and the next step is the
\* generation: no further staging proposal follows.
C15_AsClaimed ==
    \A i \in Idx :
        DeclinedOptional(i) =>
            /\ Len(events) = i => pc = "generate_255" /\ snapshot = SnapshotBefore(i)
            /\ Len(events) > i => GeneratesNext(i)

\* C15 (amended): after a rejected optional proposal no staging action is
\* executed for it and the snapshot is unchanged.  After a rejected
\* `git add -u` proposal (line 238) the next step is the generation with the
\* staged diff as it is, and so it is after a rejected optional `git add .`
\* proposal (line 222) unless the first snapshot had unstaged changes: then
\* the next step is the `git add -u` proposal of line 238.
C15_OptionalDecline ==
    \A i \in Idx :
        DeclinedOptional(i) =>
            LET again == events[i].line = 222 /\ Truthy(events[1].out[3]) IN
            /\ Len(events) = i =>
                  /\ pc = (IF again THEN "ask_238" ELSE "generate_255")
                  /\ snapshot = SnapshotBefore(i)
            /\ Len(events) > i =>
                  IF again THEN IsAskAt(i + 1, {238}) ELSE GeneratesNext(i)
            /\ events[i].line = 238 =>
                  \A j \in (i + 1)..Len(events) : ~IsAdd(j) /\ ~IsCapture(j)

\* The optional `git add .` proposal is rejected and the `git add -u`
\* proposal follows.
C15_Witness ==
    \E i \in Idx : DeclinedOptional(i) /\ Len(events) > i /\ IsAskAt(i + 1, {238})


\* The question whose "yes" leads to the staging call of a line.
QuestionOf(addLine) ==
    IF addLine = 193 THEN 189
    ELSE IF addLine = 205 THEN 203
    ELSE IF addLine = 226 THEN 222
    ELSE 238

\* C16: nothing is retried: the backend is called at most once, the commit
\* is invoked at most once, and every `git add` and `git commit` is the
\* immediate consequence of a "yes" of its own, so that after a failure the
\* command runs again only if the operator accepts another proposal.
C16_NoRetry ==
    \A i \in Idx :
        /\ IsBackendCall(i) => \A j \in (i + 1)..Len(events) : ~IsBackendCall(j)
        /\ IsCommit(i) =>
              /\ i > 1 /\ events[i - 1] = Asked(261, TRUE)
              /\ \A j \in (i + 1)..Len(events) : ~IsCommit(j)
        /\ IsAdd(i) =>
              /\ i > 1 /\ events[i - 1] = Asked(QuestionOf(events[i].line), TRUE)
              /\ \A j \in (i + 1)..Len(events) :
                    IsAdd(j) => events[j].line # events[i].line

\* A run in which a staging action fails and, later, the commit fails.
C16_Witness ==
    /\ pc = "done"
    /\ \E a, i \in Idx :
         /\ a < i
         /\ IsAdd(a) /\ ~events[a].ok
         /\ IsCommit(i) /\ ~events[i].ok


\* How far in commit() a position is: a step never goes back, nor stays.
PcRank(p) ==
    CASE p = "get_git_status_173" -> 0
      [] p \in {"ask_189", "ask_203", "ask_222"} -> 1
      [] p \in {"add_193", "add_205", "add_226"} -> 2
      [] p \in {"get_git_status_215", "get_git_status_229"} -> 3
      [] p = "ask_238" -> 4
      [] p = "add_242" -> 5
      [] p = "get_git_status_245" -> 6
      [] p = "generate_255" -> 7
      [] p = "ask_261" -> 8
      [] p = "commit_266" -> 9
      [] p = "done" -> 10

Count(Is(_)) == Cardinality({i \in Idx : Is(i)})

IsStatusCall(i) == IsOp(i, "get_git_status")

\* C17: a run asks at most three questions, executes at most two staging
\* actions and captures at most three snapshots; and it terminates when
\* every external call returns: every step moves forward in commit(), and
\* leads to the end of the run or to a position that has a next step.
C17_Terminates ==
    /\ [](Count(IsAsk) <= 3 /\ Count(IsAdd) <= 2 /\ Count(IsStatusCall) <= 3)
    /\ [][/\ PcRank(pc') > PcRank(pc)
          /\ pc' # "done" => (ENABLED Next)']_vars

\* A run that ended after three questions, two staging actions and three
\* captures.
C17_Witness ==
    /\ pc = "done"
    /\ Count(IsAsk) = 3
    /\ Count(IsAdd) = 2
    /\ Count(IsStatusCall) = 3

====
